---- MODULE Spec2Model ----
(***************************************************************************)
(* Bond toolkit pricing engine (engine/bond_engine.py).                    *)
(*                                                                         *)
(* Numbers.  The engine computes in binary floating point.  The curve,    *)
(* discounting and metric code is modelled over binary floating-point      *)
(* values with a significand of Prec bits and round-to-nearest-even (the   *)
(* arithmetic of a Python float, whose significand has 53 bits): a value   *)
(* is a record [m, e] standing for m * 2^e, kept canonical (m odd, or      *)
(* m = 0 and e = 0) so that equal numbers are equal records.  The          *)
(* cash-flow generator is modelled over a dyadic grid on which every       *)
(* floating-point operation it performs is exact: times are integers in    *)
(* units of 1/TimeDen year, money is an integer in units of                *)
(* 1/(RateDen*TimeDen).                                                    *)
(***************************************************************************)
EXTENDS Integers, Sequences, FiniteSets, TLC

\* chain: the YieldCurve instances alive, chain[1] built by a constructor call
\*        and chain[k+1] derived from chain[k]; each entry holds the instance
\*        (obj) and the call that made it (op, bp).  A constructor call starts
\*        a new chain, which is empty when the call raised.
\* res:   the last call made, with its arguments and its outcome.
VARIABLES chain, res

vars == <<chain, res>>

\* ------------------------------------------------------------ bounds

\* Bits of the significand of a floating-point value (a Python float has 53).
Prec == 10
\* log2 of the number of time-grid steps per year in the cash-flow generator.
LogTimeDen == 2
\* log2 of the denominator of the coupon rates drawn for the generator.
LogRateDen == 3
\* Longest maturity drawn for the generator, in years.
MaxYears == 2
\* Longest chain of curves derived from a constructed curve.
MaxDepth == 2

\* ------------------------------------------------------------ integers

Abs(x) == IF x < 0 THEN -x ELSE x

Sign(x) == IF x < 0 THEN -1 ELSE IF x > 0 THEN 1 ELSE 0

Min(a, b) == IF a <= b THEN a ELSE b

Max(a, b) == IF a >= b THEN a ELSE b

RECURSIVE Pow2(_)
Pow2(n) == IF n <= 0 THEN 1 ELSE 2 * Pow2(n - 1)

\* Number of bits of n > 0 (0 for n = 0).
RECURSIVE BitLen(_)
BitLen(n) == IF n <= 0 THEN 0 ELSE 1 + BitLen(n \div 2)

\* ------------------------------------------------------------ floats

\* The canonical record of m * 2^e.
RECURSIVE Canon(_, _)
Canon(m, e) ==
    IF m = 0 THEN [m |-> 0, e |-> 0]
    ELSE IF m % 2 = 0 THEN Canon(m \div 2, e + 1)
    ELSE [m |-> m, e |-> e]

\* n * 2^e rounded to Prec significant bits, ties to even.
RoundDyadic(n, e) ==
    LET a == Abs(n)
        s == BitLen(a) - Prec
    IN  IF s <= 0 THEN Canon(n, e)
        ELSE LET q    == a \div Pow2(s)
                 r    == a % Pow2(s)
                 half == Pow2(s - 1)
                 up   == r > half \/ (r = half /\ q % 2 = 1)
             IN  Canon(Sign(n) * (IF up THEN q + 1 ELSE q), e + s)

\* (num / den) * 2^e rounded to Prec significant bits, den > 0: the quotient
\* is taken to Prec + 2 bits or more and a sticky bit records a remainder.
RoundQ(num, den, e) ==
    LET a == Abs(num)
        k == Max(0, Prec + 2 + BitLen(den) - BitLen(a))
        q == (a * Pow2(k)) \div den
        r == (a * Pow2(k)) % den
    IN  IF num = 0 THEN Canon(0, 0)
        ELSE RoundDyadic(Sign(num) * (2 * q + (IF r = 0 THEN 0 ELSE 1)), e - k - 1)

\* float(n) for a Python int n.
FromInt(n) == RoundDyadic(n, 0)

Zero == FromInt(0)

One == FromInt(1)

\* float("nan"): every comparison with it is false, every sum, difference,
\* product and quotient with it is it.
NaN == [special |-> "nan"]

FNeg(a) == IF a = NaN THEN NaN ELSE [m |-> -a.m, e |-> a.e]

\* The numerators of a and b over their common power of two.
Aligned(a, b) ==
    LET e == Min(a.e, b.e)
    IN  [x |-> a.m * Pow2(a.e - e), y |-> b.m * Pow2(b.e - e), e |-> e]

FAdd(a, b) ==
    IF a = NaN \/ b = NaN THEN NaN
    ELSE LET al == Aligned(a, b) IN RoundDyadic(al.x + al.y, al.e)

FSub(a, b) == FAdd(a, FNeg(b))

FMul(a, b) ==
    IF a = NaN \/ b = NaN THEN NaN ELSE RoundDyadic(a.m * b.m, a.e + b.e)

\* a / b for b # 0.
FDiv(a, b) ==
    IF a = NaN \/ b = NaN THEN NaN
    ELSE RoundQ(Sign(b.m) * a.m, Abs(b.m), a.e - b.e)

FLe(a, b) == a # NaN /\ b # NaN /\ LET al == Aligned(a, b) IN al.x <= al.y

FLt(a, b) == a # NaN /\ b # NaN /\ LET al == Aligned(a, b) IN al.x < al.y

FGe(a, b) == FLe(b, a)

FAbs(a) == IF a = NaN THEN NaN ELSE [m |-> Abs(a.m), e |-> a.e]

\* ------------------------------------------------------------ outcomes

\* A call either returns a value or raises a Python exception.
Return(v) == [exc |-> "none", ret |-> v]

Raise(x) == [exc |-> x]

\* The value held before any call was made.
NoCall == [op |-> "none"]

\* ------------------------------------------------------------ YieldCurve

\* YieldCurve(pillars, rates, m): the dataclass constructor and __post_init__.
YieldCurve(pillars, rates, m) ==
    IF Len(pillars) # Len(rates) THEN Raise("ValueError")
    ELSE IF Len(pillars) < 1 THEN Raise("ValueError")
    ELSE IF \E i \in 1..Len(pillars) : FLe(pillars[i], Zero) THEN Raise("ValueError")
    ELSE IF \E i \in 1..(Len(pillars) - 1) : FGe(pillars[i], pillars[i + 1])
         THEN Raise("ValueError")
    ELSE IF m <= 0 THEN Raise("ValueError")
    ELSE Return([pillars |-> pillars, rates |-> rates, m |-> m])

\* The first segment i (1-based) with pillars[i] <= t <= pillars[i+1], 0 if none.
FindSegment(self, t) ==
    LET S == {i \in 1..(Len(self.pillars) - 1) :
                FLe(self.pillars[i], t) /\ FLe(t, self.pillars[i + 1])}
    IN  IF S = {} THEN 0 ELSE CHOOSE i \in S : \A j \in S : i <= j

\* r0 + w * (r1 - r0) with w = (t - t0) / (t1 - t0).
Interpolate(t, t0, t1, r0, r1) ==
    LET w == FDiv(FSub(t, t0), FSub(t1, t0))
    IN  FAdd(r0, FMul(w, FSub(r1, r0)))

zero_rate(self, t) ==
    LET n == Len(self.pillars)
        i == FindSegment(self, t)
    IN  IF FLe(t, self.pillars[1]) THEN self.rates[1]
        ELSE IF FGe(t, self.pillars[n]) THEN self.rates[n]
        ELSE IF i # 0
             THEN Interpolate(t, self.pillars[i], self.pillars[i + 1],
                              self.rates[i], self.rates[i + 1])
        ELSE self.rates[n]

\* base = 1.0 + r / self.m
DiscountBase(self, r) == FAdd(One, FDiv(r, FromInt(self.m)))

\* The integer a float stands for, when it is one.
IsIntegral(x) == x.e >= 0

IntOf(x) == x.m * Pow2(x.e)

RECURSIVE IPow(_, _)
IPow(b, n) == IF n <= 0 THEN 1 ELSE b * IPow(b, n - 1)

\* base ** x for base > 0 and an integral x, correctly rounded.
FPow(base, x) ==
    LET n == IntOf(x)
    IN  IF n >= 0 THEN RoundDyadic(IPow(base.m, n), base.e * n)
        ELSE RoundQ(1, IPow(base.m, -n), base.e * n)

\* Whether FPow(base, x) is evaluated exactly within the integers at hand:
\* x integral and the power of the significand within 16 bits.
PowInRange(base, x) ==
    /\ IsIntegral(x)
    /\ x.e + BitLen(Abs(x.m)) <= 5
    /\ BitLen(base.m) * Abs(IntOf(x)) <= 16

\* df raising only for base < 0: at base = 0 the power divides by zero.
dfStrict(self, t) ==
    LET r    == zero_rate(self, t)
        base == DiscountBase(self, r)
    IN  IF FLt(base, Zero) THEN Raise("ValueError")
        ELSE IF base = Zero THEN Raise("ZeroDivisionError")
        ELSE Return(FPow(base, FMul(FromInt(-self.m), t)))

df(self, t) ==
    LET r    == zero_rate(self, t)
        base == DiscountBase(self, r)
    IN  IF FLe(base, Zero) THEN Raise("ValueError")
        ELSE Return(FPow(base, FMul(FromInt(-self.m), t)))

\* d = bp / 10000.0
BpToRate(bp) == FDiv(bp, FromInt(10000))

\* bump_parallel taking bp for a percentage: d = bp / 100.0.
bump_parallel_percent(self, bp) ==
    LET d == FDiv(bp, FromInt(100))
    IN  [self |-> self] @@
        YieldCurve(self.pillars,
                   [i \in 1..Len(self.rates) |-> FAdd(self.rates[i], d)],
                   self.m)

bump_parallel(self, bp) ==
    LET d == BpToRate(bp)
    IN  [self |-> self] @@
        YieldCurve(self.pillars,
                   [i \in 1..Len(self.rates) |-> FAdd(self.rates[i], d)],
                   self.m)

\* bump_key without the lower bound on idx: a negative idx counts from the end.
bump_key_from_end(self, idx, bp) ==
    LET n == Len(self.rates)
        at == IF idx < 0 THEN idx + n + 1 ELSE idx + 1
    IN  IF ~(idx < n) \/ at < 1 THEN [self |-> self] @@ Raise("IndexError")
        ELSE [self |-> self] @@
             YieldCurve(self.pillars,
                        [self.rates EXCEPT ![at] = FAdd(@, BpToRate(bp))], self.m)

\* idx is a Python (0-based) index.
bump_key(self, idx, bp) ==
    IF ~(0 <= idx /\ idx < Len(self.rates)) THEN [self |-> self] @@ Raise("IndexError")
    ELSE LET d == BpToRate(bp)
             new_rates == [self.rates EXCEPT ![idx + 1] = FAdd(@, d)]
         IN  [self |-> self] @@ YieldCurve(self.pillars, new_rates, self.m)

\* The default pillar set of build_flat_curve: 0.5, 1, 2, 5, 10, 20, 30.
DefaultPillars ==
    <<Canon(1, -1), FromInt(1), FromInt(2), FromInt(5), FromInt(10), FromInt(20),
      FromInt(30)>>

\* y is a FlatYield [j, m].
build_flat_curve(y, pillars) ==
    YieldCurve(pillars, [i \in 1..Len(pillars) |-> y.j], y.m)

\* steepener_shock_bp interpolating from the long end.
steepener_shock_bp_reversed(t, short_end, long_start, short_bp, long_bp) ==
    IF FLe(t, short_end) THEN short_bp
    ELSE IF FGe(t, long_start) THEN long_bp
    ELSE LET w == FDiv(FSub(t, short_end), FSub(long_start, short_end))
         IN  FAdd(long_bp, FMul(w, FSub(short_bp, long_bp)))

steepener_shock_bp(t, short_end, long_start, short_bp, long_bp) ==
    IF FLe(t, short_end) THEN short_bp
    ELSE IF FGe(t, long_start) THEN long_bp
    ELSE LET w == FDiv(FSub(t, short_end), FSub(long_start, short_end))
         IN  FAdd(short_bp, FMul(w, FSub(long_bp, short_bp)))

\* The closure make_flattener_fn(short_end, long_start, short_bp, long_bp)
\* returns, applied to t.
make_flattener_fn(short_end, long_start, short_bp, long_bp, t) ==
    IF FLe(t, short_end) THEN short_bp
    ELSE IF FGe(t, long_start) THEN long_bp
    ELSE LET w == FDiv(FSub(t, short_end), FSub(long_start, short_end))
         IN  FAdd(short_bp, FMul(w, FSub(long_bp, short_bp)))

\* The two shock functions the scenario script passes, with their defaults.
ShockFn(fn, t) ==
    IF fn = "steepener"
    THEN steepener_shock_bp(t, FromInt(2), FromInt(10), FromInt(100), FromInt(30))
    ELSE make_flattener_fn(FromInt(2), FromInt(10), FromInt(30), FromInt(100), t)

apply_tenor_dependent_shock(self, fn) ==
    YieldCurve(self.pillars,
               [i \in 1..Len(self.rates) |->
                    FAdd(self.rates[i], FDiv(ShockFn(fn, self.pillars[i]), FromInt(10000)))],
               self.m)

\* ------------------------------------------------------------ cashflows

\* Grid steps per year, and the denominator of coupon rates.
TimeDen == Pow2(LogTimeDen)

RateDen == Pow2(LogRateDen)

\* A BondSpec is [fv, coupon_rate, maturity, coupon_freq]: fv in whole
\* currency units, coupon_rate in units of 1/RateDen, maturity in grid steps,
\* coupon_freq an int dividing TimeDen wherever it is positive.  Amounts of a
\* schedule are in units of 1/(RateDen * TimeDen).
MoneyDen == RateDen * TimeDen

\* abs(a - b) < 1e-12 and abs(a - b) < 1e-10 for grid times a, b or period
\* counts in units of 1/TimeDen: the grid step is far above either tolerance.
Within(a, b) == a = b

\* k / p in grid steps.
PeriodTime(k, p) == (k * TimeDen) \div p

\* The rows of a schedule over `times`, from row i on, t_prev being the time
\* of the row before.
RECURSIVE BuildRows(_, _, _, _, _)
BuildRows(bond, times, i, t_prev, rows) ==
    IF i > Len(times) THEN Return(rows)
    ELSE LET t      == times[i]
             dt     == t - t_prev
             coupon == bond.fv * bond.coupon_rate * dt
             cf     == IF Within(t, bond.maturity) THEN coupon + bond.fv * MoneyDen
                       ELSE coupon
         IN  IF dt <= 0 THEN Raise("ValueError")
             ELSE BuildRows(bond, times, i + 1, t,
                            Append(rows, [k |-> i, t |-> t, accrual |-> dt,
                                          cashflow |-> cf, coupon |-> coupon]))

\* StubTimes without its appends of the maturity.
StubTimesNoMaturity(T, p, n_full) == [k \in 1..n_full |-> PeriodTime(k, p)]

\* The time grid with stub = True.
StubTimes(T, p, n_full) ==
    LET times == [k \in 1..n_full |-> PeriodTime(k, p)]
    IN  IF ~Within(T * p, n_full * TimeDen)
        THEN IF times # << >> /\ Within(times[Len(times)], T) THEN times
             ELSE Append(times, T)
        ELSE IF times = << >> \/ ~Within(times[Len(times)], T) THEN Append(times, T)
             ELSE times

\* The time grid with stub = False, where times[-1] raises on an empty list.
NoStubTimes(T, p, n_full) ==
    LET T_used == PeriodTime(n_full, p)
        times  == [k \in 1..n_full |-> PeriodTime(k, p)]
    IN  IF times = << >> THEN Raise("IndexError")
        ELSE IF ~Within(times[Len(times)], T_used) THEN Return(Append(times, T_used))
        ELSE Return(times)

cashflows(bond, stub) ==
    LET fv == bond.fv
        c  == bond.coupon_rate
        T  == bond.maturity
        p  == bond.coupon_freq
        n_full == (T * p) \div TimeDen
        grid   == IF stub THEN Return(StubTimes(T, p, n_full))
                  ELSE NoStubTimes(T, p, n_full)
    IN  IF fv <= 0 \/ T <= 0 THEN Raise("ValueError")
        ELSE IF p <= 0 THEN Raise("ValueError")
        ELSE IF c < 0 THEN Raise("ValueError")
        ELSE IF grid.exc # "none" THEN grid
        ELSE BuildRows(bond, grid.ret, 1, 0, << >>)

\* ------------------------------------------------------------ pricing

\* The DataFrame cashflows returns: its rows with float columns.
Frame(rows) ==
    [i \in 1..Len(rows) |->
        [k        |-> rows[i].k,
         t        |-> RoundDyadic(rows[i].t, -LogTimeDen),
         accrual  |-> RoundDyadic(rows[i].accrual, -LogTimeDen),
         cashflow |-> RoundDyadic(rows[i].cashflow, -(LogRateDen + LogTimeDen)),
         coupon   |-> RoundDyadic(rows[i].coupon, -(LogRateDen + LogTimeDen))]]

\* price_from_curve(cf, curve): df["t"].map(curve.df) raises at the first row
\* whose discount factor does.
price_from_curve(cf, self) ==
    IF \E i \in 1..Len(cf) : df(self, cf[i].t).exc # "none" THEN Raise("ValueError")
    ELSE Return([i \in 1..Len(cf) |->
                    LET d == df(self, cf[i].t).ret
                    IN  cf[i] @@ [df |-> d, pv |-> FMul(cf[i].cashflow, d)]])

\* The sum of a float column of fewer than 8 rows: accumulated left to right.
ColumnSum(col) ==
    LET S[i \in 0..Len(col)] == IF i = 0 THEN Zero ELSE FAdd(S[i - 1], col[i])
    IN  S[Len(col)]

price(cf_pv) == ColumnSum([i \in 1..Len(cf_pv) |-> cf_pv[i].pv])

\* The infinities and the nan a division of a numpy float by 0.0 gives.
DivByZero(x) ==
    IF x.m > 0 THEN [special |-> "inf"]
    ELSE IF x.m < 0 THEN [special |-> "-inf"]
    ELSE NaN

\* macaulay_duration without its test of P == 0.
macaulay_duration_unguarded(cf_pv) ==
    LET P == price(cf_pv)
        total == ColumnSum([i \in 1..Len(cf_pv) |-> FMul(cf_pv[i].t, cf_pv[i].pv)])
    IN  IF P = Zero THEN Return(DivByZero(total)) ELSE Return(FDiv(total, P))

macaulay_duration(cf_pv) ==
    LET P == price(cf_pv)
    IN  IF P = Zero THEN Return(NaN)
        ELSE Return(FDiv(ColumnSum([i \in 1..Len(cf_pv) |->
                                       FMul(cf_pv[i].t, cf_pv[i].pv)]), P))

\* y is a FlatYield [j, m].
convexity_flat(cf_pv, y) ==
    LET P == price(cf_pv)
        a == FAdd(One, FDiv(y.j, FromInt(y.m)))
        inv_m == FDiv(One, FromInt(y.m))
        total == ColumnSum([i \in 1..Len(cf_pv) |->
                     FMul(FMul(cf_pv[i].pv, cf_pv[i].t), FAdd(cf_pv[i].t, inv_m))])
        aa == FMul(a, a)
    IN  IF P = Zero THEN Return(NaN)
        ELSE IF y.m = 0 THEN Raise("ZeroDivisionError")
        ELSE IF aa = Zero THEN Return(DivByZero(FDiv(total, P)))
        ELSE Return(FDiv(FDiv(total, P), aa))

\* ------------------------------------------------------------ sensitivities

\* The arithmetic of effective_duration_convexity on the three prices.
EdcValues(base, up, dn, dy) ==
    LET den1 == FMul(FMul(FromInt(2), base), dy)
        den2 == FMul(FMul(base, dy), dy)
    IN  IF den1 = Zero THEN Raise("ZeroDivisionError")
        ELSE IF den2 = Zero THEN Raise("ZeroDivisionError")
        ELSE Return([price         |-> base,
                     eff_duration  |-> FDiv(FSub(dn, up), den1),
                     eff_convexity |-> FDiv(FSub(FAdd(up, dn), FMul(FromInt(2), base)),
                                            den2)])

\* effective_duration_convexity once the three tables are priced: b on the
\* curve, u and d on its bumps up and down.
EdcPriced(b, u, d, bump_bp) ==
    IF b.exc # "none" THEN b
    ELSE IF u.exc # "none" THEN u
    ELSE IF d.exc # "none" THEN d
    ELSE EdcValues(price(b.ret), price(u.ret), price(d.ret),
                   FDiv(bump_bp, FromInt(10000)))

\* effective_duration_convexity once cashflows has returned cf.
EdcOn(cf, self, bump_bp) ==
    EdcPriced(price_from_curve(cf, self),
              price_from_curve(cf, bump_parallel(self, bump_bp).ret),
              price_from_curve(cf, bump_parallel(self, FNeg(bump_bp)).ret),
              bump_bp)

\* effective_duration_convexity(bond, curve, bump_bp, stub)
effective_duration_convexity(bond, self, bump_bp, stub) ==
    IF cashflows(bond, stub).exc # "none" THEN cashflows(bond, stub)
    ELSE EdcOn(Frame(cashflows(bond, stub).ret), self, bump_bp)

\* krd = -(pb - base) / (base * dy)
KrdValue(pb, base, dy) == FDiv(FNeg(FSub(pb, base)), FMul(base, dy))

\* The end of a pass of the loop: pv is the table priced on the bumped curve.
KrdAppend(st, i, pv) ==
    IF pv.exc # "none" THEN [st EXCEPT !.exc = pv.exc]
    ELSE IF FMul(st.base, st.dy) = Zero THEN [st EXCEPT !.exc = "ZeroDivisionError"]
    ELSE [st EXCEPT !.rows = Append(@, [pillar |-> st.curve.pillars[i + 1],
                                        krd |-> KrdValue(price(pv.ret), st.base, st.dy)])]

\* A pass of the loop that keeps the bumped curve for the passes that follow.
KrdPassCumulative(st, i, bumped) ==
    IF bumped.exc # "none" THEN [st EXCEPT !.exc = bumped.exc]
    ELSE [KrdAppend(st, i, price_from_curve(st.cf, bumped.ret)) EXCEPT !.curve = bumped.ret]

\* One pass of the loop of key_rate_durations, for the 0-based index i: st
\* holds the names the loop reads (curve, cf, base, dy, bump_bp), the rows
\* appended so far and the exception raised, if any; bumped is what
\* curve.bump_key(i, bump_bp) gave.
KrdPass(st, i, bumped) ==
    IF bumped.exc # "none" THEN [st EXCEPT !.exc = bumped.exc]
    ELSE KrdAppend(st, i, price_from_curve(st.cf, bumped.ret))

KrdStep(st, i) ==
    IF st.exc # "none" THEN st
    ELSE KrdPass(st, i, bump_key(st.curve, i, st.bump_bp))

\* The loop over the indices of order, in that order.
RECURSIVE KrdLoop(_, _)
KrdLoop(st, order) ==
    IF order = << >> THEN st
    ELSE KrdStep(KrdLoop(st, SubSeq(order, 1, Len(order) - 1)), order[Len(order)])

\* The state of key_rate_durations when its loop starts.
KrdStart(cf, self, base, bump_bp) ==
    [curve |-> self, cf |-> cf, base |-> base, bump_bp |-> bump_bp,
     dy |-> FDiv(bump_bp, FromInt(10000)), rows |-> << >>, exc |-> "none"]

\* enumerate(curve.pillars): 0, 1, ..., n - 1.
Enumerate(self) == [n \in 1..Len(self.pillars) |-> n - 1]

\* What key_rate_durations returns or raises when its loop has ended in end,
\* with the curve and the schedule as the call leaves them.
KrdOutcome(end) ==
    [out   |-> IF end.exc # "none" THEN Raise(end.exc) ELSE Return(end.rows),
     curve |-> end.curve, cf |-> end.cf]

\* key_rate_durations once cashflows has returned cf and b is priced on the
\* curve.
KrdOn(cf, self, b, bump_bp) ==
    IF b.exc # "none" THEN [out |-> b, curve |-> self, cf |-> cf]
    ELSE KrdOutcome(KrdLoop(KrdStart(cf, self, price(b.ret), bump_bp), Enumerate(self)))

\* key_rate_durations(bond, curve, bump_bp, stub)
key_rate_durations(bond, self, bump_bp, stub) ==
    IF cashflows(bond, stub).exc # "none"
    THEN [out |-> cashflows(bond, stub), curve |-> self, cf |-> << >>]
    ELSE KrdOn(Frame(cashflows(bond, stub).ret), self,
               price_from_curve(Frame(cashflows(bond, stub).ret), self), bump_bp)

\* ------------------------------------------------------------ inputs

Half == Canon(1, -1)

\* A rate just below 100% and one near 3%, both with full significands.
RateA == Canon(Pow2(Prec) - 1, -Prec)

RateB == Canon(Pow2(Prec - 1) + 1, -(Prec + 4))

\* Arguments of the YieldCurve constructor: valid curves with either
\* compounding, and arguments breaking each condition of the constructor.
ValidShapes ==
    { [pillars |-> <<One>>, rates |-> <<RateB>>],
      [pillars |-> <<One, FromInt(2)>>, rates |-> <<RateA, RateB>>],
      [pillars |-> <<One, FromInt(2)>>, rates |-> <<Zero, FromInt(-2)>>],
      [pillars |-> <<One, FromInt(2), FromInt(4)>>, rates |-> <<RateA, RateB, Zero>>],
      [pillars |-> <<One, FromInt(2), FromInt(4)>>, rates |-> <<One, Zero, FromInt(-2)>>] }

InvalidShapes ==
    { [pillars |-> <<One, FromInt(2)>>, rates |-> <<RateB>>],
      [pillars |-> <<One>>, rates |-> <<>>],
      [pillars |-> <<>>, rates |-> <<>>],
      [pillars |-> <<Zero, One>>, rates |-> <<RateA, RateB>>],
      [pillars |-> <<FromInt(-1), FromInt(2)>>, rates |-> <<RateA, RateB>>],
      [pillars |-> <<FromInt(2), One>>, rates |-> <<RateA, RateB>>],
      [pillars |-> <<One, One>>, rates |-> <<RateA, RateB>>],
      [pillars |-> <<One, FromInt(4), FromInt(2)>>, rates |-> <<RateA, RateB, Zero>>] }

\* Curves with a nan among their tenors.
NaNCurveInputs ==
    { [pillars |-> <<NaN>>, rates |-> <<RateA>>, m |-> 2],
      [pillars |-> <<One, NaN, FromInt(4)>>, rates |-> <<RateA, RateB, Zero>>, m |-> 1] }

CurveInputs ==
    { [pillars |-> c.pillars, rates |-> c.rates, m |-> m] :
        c \in ValidShapes \cup InvalidShapes, m \in {1, 2} }
    \cup { [pillars |-> c.pillars, rates |-> c.rates, m |-> m] :
        c \in ValidShapes, m \in {-1, 0} }

FlatYieldInputs ==
    { [j |-> Zero, m |-> 2], [j |-> RateB, m |-> 1], [j |-> One, m |-> 0],
      [j |-> FromInt(-1), m |-> 1] }

BpInputs == { FromInt(100), FromInt(-100) }

QueryBpInputs == { FromInt(100), FromInt(10000), FromInt(-10000) }

TenorInputs ==
    { Half, One, Canon(3, -1), FromInt(2), FromInt(3), FromInt(4), FromInt(5) }

ShockInputs == { "steepener", "flattener" }

\* Coupon frequencies: the divisors of TimeDen (1, 2, 4, ...), and two bad ones.
FreqInputs == { Pow2(k) : k \in 0..LogTimeDen } \cup {0, -1}

BondInputs ==
    { [fv |-> fv, coupon_rate |-> c, maturity |-> T, coupon_freq |-> p] :
        fv \in {-1, 0, 1, 100}, c \in {-1, 0, 1, 3},
        T \in -1..(MaxYears * TimeDen), p \in FreqInputs }

\* The bonds priced: one to two years, annual or semi-annual, fewer than 8 rows.
PricingBonds ==
    { [fv |-> 1, coupon_rate |-> c, maturity |-> T, coupon_freq |-> p] :
        c \in {0, 1}, T \in {TimeDen, (3 * TimeDen) \div 2, 2 * TimeDen}, p \in {1, 2} }

\* Priced tables handed to the metrics: rows of [t, pv], times increasing.
PvInputs == { Zero, One, FromInt(-1), RateA, FNeg(RateA), RateB, FromInt(3) }

PricedRows == { [t |-> t, pv |-> v] : t \in {Half, One, FromInt(2)}, v \in PvInputs }

PricedTables ==
    { <<r>> : r \in PricedRows }
    \cup { <<r1, r2>> : r1 \in {r \in PricedRows : r.t = Half},
                        r2 \in {r \in PricedRows : r.t = One} }
    \cup { <<r1, r2, r3>> : r1 \in {r \in PricedRows : r.t = Half /\ r.pv \in {One, RateA}},
                            r2 \in {r \in PricedRows : r.t = One /\ r.pv \in {RateB, FromInt(-1)}},
                            r3 \in {r \in PricedRows : r.t = FromInt(2)} }

\* Flat yields handed to the metrics: valid ones, m = 0, and 1 + j/m = 0.
MetricYields ==
    { [j |-> Zero, m |-> 1], [j |-> RateB, m |-> 2], [j |-> One, m |-> 0],
      [j |-> FromInt(-1), m |-> 1] }

\* ------------------------------------------------------------ state machine

\* The instance calls are made on.
Cur == chain[Len(chain)].obj

Made(c, op, bp) == [obj |-> c, op |-> op, bp |-> bp]

Init ==
    /\ chain = << Made(build_flat_curve([j |-> Zero, m |-> 2], DefaultPillars).ret,
                       "build_flat_curve", Zero) >>
    /\ res = NoCall

\* YieldCurve(pillars, rates, m)
Construct(pillars, rates, m) ==
    LET out == YieldCurve(pillars, rates, m)
    IN  /\ res' = [op |-> "YieldCurve", pillars |-> pillars, rates |-> rates, m |-> m,
                   out |-> out]
        /\ chain' = IF out.exc = "none" THEN << Made(out.ret, "YieldCurve", Zero) >>
                    ELSE << >>

\* build_flat_curve(y)
BuildFlatCurve(y) ==
    LET out == build_flat_curve(y, DefaultPillars)
    IN  /\ res' = [op |-> "build_flat_curve", y |-> y, out |-> out]
        /\ chain' = IF out.exc = "none" THEN << Made(out.ret, "build_flat_curve", Zero) >>
                    ELSE << >>

\* The chain after a call on its last instance that left the receiver as
\* out.self and, when it returned, made out.ret.
Derived(out, op, bp) ==
    LET kept == [chain EXCEPT ![Len(chain)].obj = out.self]
    IN  IF out.exc = "none" THEN Append(kept, Made(out.ret, op, bp)) ELSE kept

\* Cur.bump_parallel(bp)
BumpParallel(bp) ==
    /\ chain # << >>
    /\ Len(chain) <= MaxDepth
    /\ LET out == bump_parallel(Cur, bp)
       IN  /\ res' = [op |-> "bump_parallel", self |-> Cur, bp |-> bp, out |-> out]
           /\ chain' = Derived(out, "bump_parallel", bp)

\* Cur.bump_key(idx, bp)
BumpKey(idx, bp) ==
    /\ chain # << >>
    /\ Len(chain) <= MaxDepth
    /\ LET out == bump_key(Cur, idx, bp)
       IN  /\ res' = [op |-> "bump_key", self |-> Cur, idx |-> idx, bp |-> bp,
                      out |-> out]
           /\ chain' = Derived(out, "bump_key", bp)

\* apply_tenor_dependent_shock(Cur, fn)
ApplyShock(fn) ==
    /\ chain # << >>
    /\ Len(chain) <= MaxDepth
    /\ LET out == [self |-> Cur] @@ apply_tenor_dependent_shock(Cur, fn)
       IN  /\ res' = [op |-> "apply_tenor_dependent_shock", self |-> Cur, fn |-> fn,
                      out |-> out]
           /\ chain' = Derived(out, "apply_tenor_dependent_shock", Zero)

\* Cur.zero_rate(t)
ZeroRate(t) ==
    /\ chain # << >>
    /\ res' = [op |-> "zero_rate", self |-> Cur, t |-> t, out |-> Return(zero_rate(Cur, t))]
    /\ UNCHANGED chain

\* Whether the model evaluates self.df(t): it raises, or its power is in range.
DfInRange(self, t) ==
    LET base == DiscountBase(self, zero_rate(self, t))
    IN  FLe(base, Zero) \/ PowInRange(base, FMul(FromInt(-self.m), t))

\* Cur.df(t)
Df(t) ==
    /\ chain # << >>
    /\ DfInRange(Cur, t)
    /\ res' = [op |-> "df", self |-> Cur, t |-> t, out |-> df(Cur, t)]
    /\ UNCHANGED chain

\* cf = cashflows(bond, stub); price_from_curve(cf, Cur)
PriceInRange(cf, self) == \A i \in 1..Len(cf) : DfInRange(self, cf[i].t)

PriceFromCurve(bond, stub) ==
    /\ chain # << >>
    /\ LET cf == cashflows(bond, stub)
       IN  /\ cf.exc = "none" => PriceInRange(Frame(cf.ret), Cur)
           /\ res' = [op |-> "price_from_curve", self |-> Cur, bond |-> bond,
                      stub |-> stub,
                      cf |-> IF cf.exc = "none" THEN Frame(cf.ret) ELSE << >>,
                      out |-> IF cf.exc = "none" THEN price_from_curve(Frame(cf.ret), Cur)
                              ELSE cf]
    /\ UNCHANGED chain

\* The curves: construction and the chains of bumps and shocks.
Next ==
    \/ \E a \in CurveInputs \cup NaNCurveInputs : Construct(a.pillars, a.rates, a.m)
    \/ \E y \in FlatYieldInputs : BuildFlatCurve(y)
    \/ \E bp \in BpInputs : BumpParallel(bp)
    \/ \E idx \in -2..3 : BumpKey(idx, FromInt(100))
    \/ \E fn \in ShockInputs : ApplyShock(fn)

Spec == Init /\ [][Next]_vars

\* The queries, on every constructed curve and every curve one bump away.
NextQuery ==
    \/ \E a \in CurveInputs : Construct(a.pillars, a.rates, a.m)
    \/ \E y \in FlatYieldInputs : BuildFlatCurve(y)
    \/ \E bp \in QueryBpInputs : Len(chain) = 1 /\ BumpParallel(bp)
    \/ \E idx \in -1..2 : Len(chain) = 1 /\ BumpKey(idx, FromInt(10000))
    \/ \E t \in TenorInputs : ZeroRate(t)
    \/ \E t \in TenorInputs : Df(t)
    \/ \E bond \in PricingBonds, stub \in BOOLEAN : PriceFromCurve(bond, stub)

SpecQuery == Init /\ [][NextQuery]_vars

\* ------------------------------------------------------------ schedules

InitPure == chain = << >> /\ res = NoCall

\* cashflows(bond, stub)
Cashflows(bond, stub) ==
    /\ res' = [op |-> "cashflows", bond |-> bond, stub |-> stub,
               out |-> cashflows(bond, stub)]
    /\ UNCHANGED chain

NextSched == \E bond \in BondInputs, stub \in BOOLEAN : Cashflows(bond, stub)

SpecSched == InitPure /\ [][NextSched]_vars

\* ------------------------------------------------------------ metrics

\* macaulay_duration(cf_pv)
MacaulayDuration(cf_pv) ==
    /\ res' = [op |-> "macaulay_duration", cf_pv |-> cf_pv, out |-> macaulay_duration(cf_pv)]
    /\ UNCHANGED chain

\* convexity_flat(cf_pv, y)
ConvexityFlat(cf_pv, y) ==
    /\ res' = [op |-> "convexity_flat", cf_pv |-> cf_pv, y |-> y,
               out |-> convexity_flat(cf_pv, y)]
    /\ UNCHANGED chain

NextMetrics ==
    \/ \E cf_pv \in PricedTables : MacaulayDuration(cf_pv)
    \/ \E cf_pv \in PricedTables, y \in MetricYields : ConvexityFlat(cf_pv, y)

SpecMetrics == InitPure /\ [][NextMetrics]_vars

\* ------------------------------------------------------------ claims: schedules

ValidBond(b) == b.fv > 0 /\ b.maturity > 0 /\ b.coupon_freq > 0 /\ b.coupon_rate >= 0

\* maturity * frequency is a whole number of periods.
WholePeriods(b) == (b.maturity * b.coupon_freq) % TimeDen = 0

NFull(b) == (b.maturity * b.coupon_freq) \div TimeDen

\* The last call was cashflows and it returned a schedule.
Scheduled == res.op = "cashflows" /\ res.out.exc = "none"

SeqSum(f) ==
    LET S[i \in 0..Len(f)] == IF i = 0 THEN 0 ELSE S[i - 1] + f[i]
    IN  S[Len(f)]

\* C1: every schedule cashflows returns, with stub on or off, pays the
\* principal exactly once, at its final row: the final row's cashflow is its
\* coupon plus fv and every earlier row's cashflow is its coupon alone.
C1_PrincipalAtFinalRow ==
    (Scheduled /\ ValidBond(res.bond)) =>
        LET rows == res.out.ret
            n    == Len(rows)
        IN  /\ n >= 1
            /\ rows[n].cashflow = rows[n].coupon + res.bond.fv * MoneyDen
            /\ \A i \in 1..(n - 1) : rows[i].cashflow = rows[i].coupon

\* The time grid C2 states: k/frequency for k = 1..n_full, then the maturity
\* when stubs are allowed and the period count is not whole.
ExpectedTimes(b, stub) ==
    [k \in 1..NFull(b) |-> PeriodTime(k, b.coupon_freq)]
        \o (IF stub /\ ~WholePeriods(b) THEN <<b.maturity>> ELSE << >>)

\* C2: for every valid bond and either stub mode, cashflows gives the schedule
\* whose times are k/frequency for k = 1..n_full, followed by one row at the
\* maturity if and only if stubs are allowed and maturity * frequency is not
\* a whole number.
C2_TimeGrid ==
    (res.op = "cashflows" /\ ValidBond(res.bond)) =>
        /\ res.out.exc = "none"
        /\ [i \in 1..Len(res.out.ret) |-> res.out.ret[i].t]
               = ExpectedTimes(res.bond, res.stub)

\* C2 holds of every schedule that is returned.
C2_TimeGridWhenReturned ==
    Scheduled =>
        [i \in 1..Len(res.out.ret) |-> res.out.ret[i].t]
            = ExpectedTimes(res.bond, res.stub)

\* C3: every schedule cashflows returns is non-empty, numbers its rows 1..n,
\* has strictly increasing positive times, accruals equal to the difference
\* of consecutive times (from 0) and positive, ends at the maturity with
\* stubs allowed and at floor(maturity * frequency) / frequency without, and
\* has accruals summing to that last time.
C3_ScheduleInvariant ==
    Scheduled =>
        LET rows == res.out.ret
            n    == Len(rows)
            b    == res.bond
            prev(i) == IF i = 1 THEN 0 ELSE rows[i - 1].t
        IN  /\ n >= 1
            /\ \A i \in 1..n :
                  /\ rows[i].k = i
                  /\ rows[i].t > prev(i)
                  /\ rows[i].accrual = rows[i].t - prev(i)
                  /\ rows[i].accrual > 0
            /\ rows[n].t = IF res.stub THEN b.maturity
                           ELSE PeriodTime(NFull(b), b.coupon_freq)
            /\ SeqSum([i \in 1..n |-> rows[i].accrual]) = rows[n].t

\* A schedule with a final stub row, and one cut to whole periods.
C3_Witness ==
    /\ Scheduled
    /\ ~WholePeriods(res.bond)
    /\ Len(res.out.ret) >= 3

\* C4: cashflows raises ValueError for fv <= 0, maturity <= 0, frequency <= 0
\* or coupon_rate < 0, and for every other bond, in either stub mode, it
\* returns a schedule or raises ValueError: no other exception.
C4_OnlyValueError ==
    res.op = "cashflows" =>
        /\ ~ValidBond(res.bond) => res.out.exc = "ValueError"
        /\ ValidBond(res.bond) => res.out.exc \in {"none", "ValueError"}

\* What holds of C4: the invalid bonds raise ValueError, and a valid bond
\* raises, an IndexError, only without stubs and with less than one period.
C4_Observed ==
    res.op = "cashflows" =>
        /\ ~ValidBond(res.bond) => res.out.exc = "ValueError"
        /\ ValidBond(res.bond) =>
              res.out.exc = (IF ~res.stub /\ NFull(res.bond) = 0 THEN "IndexError"
                             ELSE "none")

\* ------------------------------------------------------------ claims: curves

\* The invariant of a YieldCurve.
CurveInvariant(c) ==
    /\ Len(c.pillars) = Len(c.rates)
    /\ Len(c.pillars) >= 1
    /\ \A i \in 1..Len(c.pillars) : FLt(Zero, c.pillars[i])
    /\ \A i \in 1..(Len(c.pillars) - 1) : FLt(c.pillars[i], c.pillars[i + 1])
    /\ c.m > 0

\* The same of constructor arguments.
ArgsValid(pillars, rates, m) ==
    CurveInvariant([pillars |-> pillars, rates |-> rates, m |-> m])

\* |x - y| <= 2^(k - Prec) * bound, for floats x, y and bound >= 0: equal up
\* to 2^k roundings of a value of the size of bound.
Near(x, y, bound, k) ==
    LET e  == Min(Min(x.e, y.e), bound.e)
        ax == x.m * Pow2(x.e - e)
        ay == y.m * Pow2(y.e - e)
        ab == Abs(bound.m) * Pow2(bound.e - e)
    IN  Abs(ax - ay) <= (ab * Pow2(k)) \div Pow2(Prec)

FMax(a, b) == IF FLe(FAbs(a), FAbs(b)) THEN FAbs(b) ELSE FAbs(a)

\* C5: zero_rate(t) is the first rate for t <= first pillar and the last rate
\* for t >= last pillar; at an exact pillar, interior ones included, it is
\* that pillar's rate; strictly between adjacent pillars (t0,r0), (t1,r1) it
\* is r0 + (t-t0)/(t1-t0)*(r1-r0), the mean of r0 and r1 (up to rounding) at
\* the midpoint; only the bracketing pair matters.
C5_ZeroRate ==
    res.op = "zero_rate" =>
        LET c == res.self
            t == res.t
            r == res.out.ret
            n == Len(c.pillars)
        IN  /\ FLe(t, c.pillars[1]) => r = c.rates[1]
            /\ FGe(t, c.pillars[n]) => r = c.rates[n]
            /\ \A i \in 1..n : t = c.pillars[i] => r = c.rates[i]
            /\ \A i \in 1..(n - 1) :
                  LET t0 == c.pillars[i]
                      t1 == c.pillars[i + 1]
                      r0 == c.rates[i]
                      r1 == c.rates[i + 1]
                  IN  /\ (FLt(t0, t) /\ FLt(t, t1)) =>
                            r = FAdd(r0, FMul(FDiv(FSub(t, t0), FSub(t1, t0)), FSub(r1, r0)))
                      /\ FAdd(t, t) = FAdd(t0, t1) =>
                            Near(FAdd(r, r), FAdd(r0, r1), FMax(r0, r1), 3)

\* What holds of C5: all of it but the interior pillars, where zero_rate is
\* r0 + 1.0 * (r1 - r0), the pillar's rate up to rounding.
C5_Observed ==
    res.op = "zero_rate" =>
        LET c == res.self
            t == res.t
            r == res.out.ret
            n == Len(c.pillars)
        IN  /\ FLe(t, c.pillars[1]) => r = c.rates[1]
            /\ FGe(t, c.pillars[n]) => r = c.rates[n]
            /\ \A i \in 2..(n - 1) : t = c.pillars[i] =>
                  /\ r = FAdd(c.rates[i - 1], FSub(c.rates[i], c.rates[i - 1]))
                  /\ Near(r, c.rates[i], FMax(c.rates[i - 1], c.rates[i]), 2)
            /\ \A i \in 1..(n - 1) :
                  LET t0 == c.pillars[i]
                      t1 == c.pillars[i + 1]
                      r0 == c.rates[i]
                      r1 == c.rates[i + 1]
                  IN  /\ (FLt(t0, t) /\ FLt(t, t1)) =>
                            r = FAdd(r0, FMul(FDiv(FSub(t, t0), FSub(t1, t0)), FSub(r1, r0)))
                      /\ FAdd(t, t) = FAdd(t0, t1) =>
                            Near(FAdd(r, r), FAdd(r0, r1), FMax(r0, r1), 3)

\* The receiver of the last call, as the chain holds it now.
ReceiverNow ==
    chain[IF res.out.exc = "none" THEN Len(chain) - 1 ELSE Len(chain)].obj

\* C6: bump_key(idx, bp) raises IndexError for every idx outside 0..n-1,
\* negative ones included; for a valid idx it returns a new curve whose rate
\* at idx is the old rate plus bp/10000, with the other rates, the pillars
\* and m unchanged; the curve it was called on is unchanged.
C6_BumpKey ==
    (res.op = "bump_key" /\ CurveInvariant(res.self)) =>
        LET c   == res.self
            n   == Len(c.rates)
            out == res.out
        IN  /\ res.idx \notin 0..(n - 1) => out.exc = "IndexError"
            /\ res.idx \in 0..(n - 1) =>
                  /\ out.exc = "none"
                  /\ out.ret.pillars = c.pillars
                  /\ out.ret.m = c.m
                  /\ Len(out.ret.rates) = n
                  /\ \A i \in 1..n :
                        out.ret.rates[i] =
                            IF i = res.idx + 1
                            THEN FAdd(c.rates[i], FDiv(res.bp, FromInt(10000)))
                            ELSE c.rates[i]
            /\ out.self = c
            /\ ReceiverNow = c

\* A bump of an interior pillar, made on a curve that was itself derived.
C6_Witness ==
    /\ res.op = "bump_key"
    /\ CurveInvariant(res.self)
    /\ res.out.exc = "none"
    /\ res.idx = 1
    /\ Len(res.self.rates) >= 3
    /\ Len(chain) = 3

\* curve b is curve a up to the roundings of adding and subtracting d.
RoundTripEqual(a, b, d) ==
    /\ b.pillars = a.pillars
    /\ b.m = a.m
    /\ Len(b.rates) = Len(a.rates)
    /\ \A i \in 1..Len(a.rates) : Near(b.rates[i], a.rates[i], FMax(a.rates[i], d), 2)

\* chain[k] undoes chain[k-1]: both made by bump_parallel, with opposite bp.
Undoes(k) ==
    /\ k >= 3
    /\ chain[k].op = "bump_parallel"
    /\ chain[k - 1].op = "bump_parallel"
    /\ chain[k].bp = FNeg(chain[k - 1].bp)

\* C7: bump_parallel(bp) returns a new curve with the same pillars and m and
\* every rate increased by bp/10000, leaving the receiver unchanged, and
\* bump_parallel(bp) followed by bump_parallel(-bp) returns a curve equal to
\* the original: same pillars, same m, rates equal within floating tolerance.
C7_BumpParallel ==
    /\ (res.op = "bump_parallel" /\ CurveInvariant(res.self)) =>
          LET c   == res.self
              out == res.out
          IN  /\ out.exc = "none"
              /\ out.ret.pillars = c.pillars
              /\ out.ret.m = c.m
              /\ Len(out.ret.rates) = Len(c.rates)
              /\ \A i \in 1..Len(c.rates) :
                    out.ret.rates[i] = FAdd(c.rates[i], FDiv(res.bp, FromInt(10000)))
              /\ out.self = c
              /\ ReceiverNow = c
    /\ \A k \in 1..Len(chain) :
          (Undoes(k) /\ CurveInvariant(chain[k - 2].obj)) =>
              RoundTripEqual(chain[k - 2].obj, chain[k].obj,
                             FDiv(chain[k].bp, FromInt(10000)))

\* A round trip that does not give back the very same rates.
C7_Witness ==
    /\ Len(chain) = 3
    /\ CurveInvariant(chain[1].obj)
    /\ Undoes(3)
    /\ res.op = "bump_parallel"
    /\ chain[3].obj.rates # chain[1].obj.rates

\* C8: every YieldCurve instance satisfies the curve invariant: the
\* constructor raises ValueError for arguments violating it, and every curve
\* made from a valid one by bump_parallel, bump_key,
\* apply_tenor_dependent_shock or build_flat_curve on the default pillars
\* satisfies it again.
C8_CurveInvariant ==
    /\ \A k \in 1..Len(chain) : CurveInvariant(chain[k].obj)
    /\ res.op = "YieldCurve" =>
          /\ ~ArgsValid(res.pillars, res.rates, res.m) => res.out.exc = "ValueError"
          /\ res.out.exc = "none" => CurveInvariant(res.out.ret)
    /\ res.op = "build_flat_curve" =>
          /\ res.y.m <= 0 => res.out.exc = "ValueError"
          /\ res.out.exc = "none" => CurveInvariant(res.out.ret)
    /\ res.op \in {"bump_parallel", "bump_key", "apply_tenor_dependent_shock"} =>
          (res.out.exc = "none" => CurveInvariant(res.out.ret))

\* What holds of C8: no instance has a tenor <= 0 or a tenor >= the next one,
\* which a nan among the tenors satisfies, and construction from tenors
\* without a nan raises ValueError exactly when the invariant is violated.
NoNaN(pillars) == \A i \in 1..Len(pillars) : pillars[i] # NaN

WeakInvariant(c) ==
    /\ Len(c.pillars) = Len(c.rates)
    /\ Len(c.pillars) >= 1
    /\ \A i \in 1..Len(c.pillars) : ~FLe(c.pillars[i], Zero)
    /\ \A i \in 1..(Len(c.pillars) - 1) : ~FGe(c.pillars[i], c.pillars[i + 1])
    /\ c.m > 0

C8_Observed ==
    /\ \A k \in 1..Len(chain) :
          /\ WeakInvariant(chain[k].obj)
          /\ NoNaN(chain[k].obj.pillars) => CurveInvariant(chain[k].obj)
    /\ (res.op = "YieldCurve" /\ NoNaN(res.pillars)) =>
          (res.out.exc = "ValueError" <=> ~ArgsValid(res.pillars, res.rates, res.m))

\* 1 + r/m <= 0, over the reals.
BaseNotPositive(c, r) == FLe(r, FromInt(-c.m))

RECURSIVE Total(_)
Total(col) == IF col = << >> THEN Zero
              ELSE FAdd(Total(SubSeq(col, 1, Len(col) - 1)), col[Len(col)])

PriceOf(cf_pv) == Total([i \in 1..Len(cf_pv) |-> cf_pv[i].pv])

\* A FlatYield with m > 0 and 1 + j/m # 0.
YieldValid(y) == y.m > 0 /\ FAdd(One, FDiv(y.j, FromInt(y.m))) # Zero

\* (1/price) * sum[pv * t * (t + 1/m)] / (1 + j/m)^2
ConvexityFormula(cf_pv, y) ==
    LET a == FAdd(One, FDiv(y.j, FromInt(y.m)))
        total == Total([i \in 1..Len(cf_pv) |->
                    FMul(FMul(cf_pv[i].pv, cf_pv[i].t),
                         FAdd(cf_pv[i].t, FDiv(One, FromInt(y.m))))])
    IN  FDiv(FMul(FDiv(One, PriceOf(cf_pv)), total), FMul(a, a))

\* C10: on a priced schedule whose present values sum to exactly 0,
\* macaulay_duration and convexity_flat return NaN and raise nothing; on one
\* with a non-zero price they return sum(t*pv)/price and
\* (1/price) * sum[pv*t*(t+1/m)] / (1+j/m)^2 (the latter up to the rounding
\* of its divisions).
C10_DegenerateMetrics ==
    /\ res.op = "macaulay_duration" =>
          LET P == PriceOf(res.cf_pv)
          IN  /\ P = Zero => res.out = Return(NaN)
              /\ P # Zero =>
                    res.out = Return(FDiv(Total([i \in 1..Len(res.cf_pv) |->
                                  FMul(res.cf_pv[i].t, res.cf_pv[i].pv)]), P))
    /\ res.op = "convexity_flat" =>
          LET P == PriceOf(res.cf_pv)
              f == ConvexityFormula(res.cf_pv, res.y)
          IN  /\ P = Zero => res.out = Return(NaN)
              /\ (P # Zero /\ YieldValid(res.y)) =>
                    /\ res.out.exc = "none"
                    /\ Near(res.out.ret, f, f, 3)

\* Both metrics on a schedule of non-zero present values that sum to 0.
C10_Witness ==
    /\ res.op \in {"macaulay_duration", "convexity_flat"}
    /\ Len(res.cf_pv) >= 2
    /\ \A i \in 1..Len(res.cf_pv) : res.cf_pv[i].pv # Zero
    /\ PriceOf(res.cf_pv) = Zero
    /\ res.out = Return(NaN)

\* ------------------------------------------------------------ shocks

\* Tenors the shock functions are called on.
ShockTenors ==
    { Half, One, FromInt(2), FromInt(3), FromInt(4), FromInt(9), FromInt(10),
      FromInt(12) }

\* (short_end, long_start): the defaults, a short span, an empty and a reversed
\* one, and a span whose ends are so far apart that t - short_end rounds to
\* long_start - short_end for t = 9 < long_start = 10.
SpanInputs ==
    { <<FromInt(2), FromInt(10)>>, <<One, FromInt(4)>>, <<FromInt(2), FromInt(2)>>,
      <<FromInt(4), FromInt(2)>>, <<FromInt(-Pow2(Prec + 2)), FromInt(10)>> }

ShockBpInputs == { FromInt(100), FromInt(30), RateA, RateB }

\* steepener_shock_bp(t, short_end, long_start, short_bp, long_bp)
SteepenerShockBp(t, short_end, long_start, short_bp, long_bp) ==
    /\ res' = [op |-> "steepener_shock_bp", t |-> t, short_end |-> short_end,
               long_start |-> long_start, short_bp |-> short_bp, long_bp |-> long_bp,
               out |-> Return(steepener_shock_bp(t, short_end, long_start,
                                                 short_bp, long_bp))]
    /\ UNCHANGED chain

\* make_flattener_fn(short_end, long_start, short_bp, long_bp)(t)
MakeFlattenerFn(t, short_end, long_start, short_bp, long_bp) ==
    /\ res' = [op |-> "make_flattener_fn", t |-> t, short_end |-> short_end,
               long_start |-> long_start, short_bp |-> short_bp, long_bp |-> long_bp,
               out |-> Return(make_flattener_fn(short_end, long_start,
                                                short_bp, long_bp, t))]
    /\ UNCHANGED chain

NextShock ==
    \/ \E t \in ShockTenors, ab \in SpanInputs, sbp \in ShockBpInputs, lbp \in ShockBpInputs :
          SteepenerShockBp(t, ab[1], ab[2], sbp, lbp)
    \/ \E t \in ShockTenors, ab \in SpanInputs, sbp \in ShockBpInputs, lbp \in ShockBpInputs :
          MakeFlattenerFn(t, ab[1], ab[2], sbp, lbp)

SpecShock == InitPure /\ [][NextShock]_vars

\* v lies between a and b, up to 4 roundings of the larger of them.
BetweenRounded(v, a, b) ==
    \/ FLe(a, v) /\ FLe(v, b)
    \/ FLe(b, v) /\ FLe(v, a)
    \/ Near(v, a, FMax(a, b), 2)
    \/ Near(v, b, FMax(a, b), 2)

RiskBonds ==
    { [fv |-> 1, coupon_rate |-> 1, maturity |-> TimeDen, coupon_freq |-> 1],
      [fv |-> 1, coupon_rate |-> 1, maturity |-> 2 * TimeDen, coupon_freq |-> 1],
      [fv |-> 1, coupon_rate |-> 0, maturity |-> (3 * TimeDen) \div 4, coupon_freq |-> 2],
      [fv |-> 1, coupon_rate |-> 1, maturity |-> (3 * TimeDen) \div 4, coupon_freq |-> 2],
      [fv |-> 1, coupon_rate |-> 0, maturity |-> TimeDen \div 2, coupon_freq |-> 1],
      [fv |-> 0, coupon_rate |-> 1, maturity |-> TimeDen, coupon_freq |-> 1] }

RiskBpInputs == { FromInt(10000), FromInt(100), Zero }

\* The curves of the sensitivities: one to three pillars, rates that change
\* sign, and one curve that cannot be constructed.
RiskCurveInputs ==
    { [pillars |-> <<One>>, rates |-> <<RateB>>, m |-> 1],
      [pillars |-> <<One, FromInt(2)>>, rates |-> <<RateA, RateB>>, m |-> 2],
      [pillars |-> <<One, FromInt(2)>>, rates |-> <<Zero, FromInt(-2)>>, m |-> 1],
      [pillars |-> <<One, FromInt(2), FromInt(4)>>, rates |-> <<One, Zero, FromInt(-2)>>, m |-> 2],
      [pillars |-> <<One, FromInt(2), FromInt(4)>>, rates |-> <<One, Zero, One>>, m |-> 1],
      [pillars |-> <<FromInt(2), One>>, rates |-> <<RateA, RateB>>, m |-> 2] }

\* Whether the model evaluates every discount factor of a sensitivity.
RiskInRange(bond, stub, self, bp) ==
    LET cfr == cashflows(bond, stub)
        cf  == Frame(cfr.ret)
    IN  cfr.exc = "none" =>
            /\ PriceInRange(cf, self)
            /\ PriceInRange(cf, bump_parallel(self, bp).ret)
            /\ PriceInRange(cf, bump_parallel(self, FNeg(bp)).ret)
            /\ \A i \in 0..(Len(self.pillars) - 1) :
                  PriceInRange(cf, bump_key(self, i, bp).ret)

\* The schedule a sensitivity prices, << >> when cashflows raises.
ScheduleOf(bond, stub) ==
    LET cfr == cashflows(bond, stub)
    IN  IF cfr.exc = "none" THEN Frame(cfr.ret) ELSE << >>

\* effective_duration_convexity(bond, Cur, bp, stub)
EffectiveDurationConvexity(bond, bp, stub) ==
    /\ chain # << >>
    /\ RiskInRange(bond, stub, Cur, bp)
    /\ res' = [op |-> "effective_duration_convexity", self |-> Cur, bond |-> bond,
               stub |-> stub, bp |-> bp, cf |-> ScheduleOf(bond, stub),
               out |-> effective_duration_convexity(bond, Cur, bp, stub)]
    /\ UNCHANGED chain

\* key_rate_durations(bond, Cur, bp, stub)
KeyRateDurations(bond, bp, stub) ==
    /\ chain # << >>
    /\ RiskInRange(bond, stub, Cur, bp)
    /\ \E r \in { key_rate_durations(bond, Cur, bp, stub) } :
           /\ res' = [op |-> "key_rate_durations", self |-> Cur, bond |-> bond,
                      stub |-> stub, bp |-> bp, cf |-> ScheduleOf(bond, stub),
                      out |-> r.out, self_after |-> r.curve, cf_after |-> r.cf]
           /\ chain' = [chain EXCEPT ![Len(chain)].obj = r.curve]

NextRisk ==
    \/ \E a \in RiskCurveInputs : Construct(a.pillars, a.rates, a.m)
    \/ \E bond \in RiskBonds, bp \in RiskBpInputs, stub \in BOOLEAN :
          EffectiveDurationConvexity(bond, bp, stub)
    \/ \E bond \in RiskBonds, bp \in RiskBpInputs, stub \in BOOLEAN :
          KeyRateDurations(bond, bp, stub)

SpecRisk == Init /\ [][NextRisk]_vars

\* The price of the table cf on curve c.
PriceOn(cf, c) == price(price_from_curve(cf, c).ret)

Reverse(q) == [n \in 1..Len(q) |-> q[Len(q) + 1 - n]]

\* C11: key_rate_durations returns one (pillar, krd) row per pillar of the
\* curve, in the order of the pillars; the bumps are independent, not
\* cumulative: the i-th krd is -(P_i - P_base)/(P_base*dy) with P_i the price
\* on the base curve bumped at pillar i only, so the loop run over the
\* pillars in another order gives the same rows; the curve and the schedule
\* are the same after the call.
C11_KeyRateTable ==
    res.op = "key_rate_durations" =>
        LET c    == res.self
            n    == Len(c.pillars)
            rows == res.out.ret
            base == PriceOn(res.cf, c)
            dy   == FDiv(res.bp, FromInt(10000))
            back == KrdLoop(KrdStart(res.cf, c, base, res.bp), Reverse(Enumerate(c)))
        IN  /\ res.self_after = c
            /\ chain[Len(chain)].obj = c
            /\ res.cf_after = res.cf
            /\ res.out.exc = "none" =>
                  /\ Len(rows) = n
                  /\ \A j \in 1..n :
                        /\ rows[j].pillar = c.pillars[j]
                        /\ rows[j].krd =
                              FDiv(FNeg(FSub(PriceOn(res.cf, bump_key(c, j - 1, res.bp).ret),
                                             base)),
                                   FMul(base, dy))
                  /\ back.exc = "none"
                  /\ \A j \in 1..n : back.rows[n + 1 - j] = rows[j]

\* A table of three pillars with two key-rate durations that are not 0.
C11_Witness ==
    /\ res.op = "key_rate_durations"
    /\ res.out.exc = "none"
    /\ Len(res.self.pillars) = 3
    /\ Cardinality({j \in 1..3 : res.out.ret[j].krd # Zero}) >= 2

\* 1 + zero_rate(t)/m > 0 at every time of the schedule cf.
PositiveBases(cf, c) ==
    \A i \in 1..Len(cf) : ~BaseNotPositive(c, zero_rate(c, cf[i].t))

\* The last call was a sensitivity of a valid bond with a bump that is not 0,
\* on a curve whose discount bases are positive at the times of the schedule.
ValidSensitivity ==
    /\ res.op \in {"effective_duration_convexity", "key_rate_durations"}
    /\ ValidBond(res.bond)
    /\ res.bp # Zero
    /\ PositiveBases(res.cf, res.self)

\* C13: for every valid bond, either stub mode, and every curve whose
\* discount base is positive at all schedule times, the base price of
\* effective_duration_convexity and key_rate_durations is > 0, so with a bump
\* that is not 0 neither divides by zero.
C13_NoDivisionByZero ==
    ValidSensitivity =>
        /\ res.out.exc # "ZeroDivisionError"
        /\ res.cf # << >> => FLt(Zero, PriceOn(res.cf, res.self))

\* What holds of C13: the same for the schedules that pay something.
C13_Observed ==
    (ValidSensitivity /\ \E i \in 1..Len(res.cf) : FLt(Zero, res.cf[i].cashflow)) =>
        /\ res.out.exc # "ZeroDivisionError"
        /\ FLt(Zero, PriceOn(res.cf, res.self))

\* ------------------------------------------------------------ claims: key rates

\* The largest of |d| and the |rates| of c.
Scale(c, d) ==
    LET S[i \in 0..Len(c.rates)] == IF i = 0 THEN FAbs(d) ELSE FMax(S[i - 1], c.rates[i])
    IN  S[Len(c.rates)]

\* zero_rate(t) on c bumped at the pillar of 0-based index i, less zero_rate(t) on c.
KeyShift(c, i, bp, t) == FSub(zero_rate(bump_key(c, i, bp).ret, t), zero_rate(c, t))

\* t is at or beyond the neighbours of pillar j (1-based) of c.
BeyondNeighbours(c, j, t) ==
    \/ j > 1 /\ FLe(t, c.pillars[j - 1])
    \/ j < Len(c.pillars) /\ FGe(t, c.pillars[j + 1])

\* The last call was zero_rate on a curve made by bump_key from chain[1].
AfterKeyBump ==
    /\ res.op = "zero_rate"
    /\ Len(chain) = 2
    /\ chain[2].op = "bump_key"
    /\ res.self = chain[2].obj

\* The pillar (1-based) at which chain[2] was bumped.
BumpedPillar ==
    CHOOSE j \in 1..Len(chain[1].obj.rates) : chain[2].obj.rates[j] # chain[1].obj.rates[j]

\* The sum over the pillars of the shifts of zero_rate(t) is bp/10000, and so
\* is the shift under bump_parallel, up to rounding; in the flat regions the
\* first or the last pillar carries the whole shift.
ShiftsAddUp(c, t, bp) ==
    LET n == Len(c.pillars)
        d == FDiv(bp, FromInt(10000))
        z == zero_rate(c, t)
    IN  /\ Near(Total([j \in 1..n |-> KeyShift(c, j - 1, bp, t)]), d, Scale(c, d), 4)
        /\ Near(FSub(zero_rate(bump_parallel(c, bp).ret, t), z), d, Scale(c, d), 4)
        /\ FLe(t, c.pillars[1]) =>
              /\ KeyShift(c, 0, bp, t) = FSub(FAdd(c.rates[1], d), c.rates[1])
              /\ \A j \in 2..n : KeyShift(c, j - 1, bp, t) = Zero
        /\ FGe(t, c.pillars[n]) =>
              /\ KeyShift(c, n - 1, bp, t) = FSub(FAdd(c.rates[n], d), c.rates[n])
              /\ \A j \in 1..(n - 1) : KeyShift(c, j - 1, bp, t) = Zero

\* C14: key-rate bumps decompose the parallel bump: for every curve, bp and
\* tenor t the shifts bump_key(i, bp).zero_rate(t) - zero_rate(t) sum over the
\* pillars to bp/10000, which is also the shift under bump_parallel(bp) (up
\* to rounding); bumping pillar i alone leaves zero_rate(t) unchanged for
\* every t at or beyond the neighbouring pillars, the first or last pillar
\* carrying the whole shift in the flat regions.
C14_KeyRateDecomposition ==
    /\ (res.op = "zero_rate" /\ Len(chain) = 1) =>
          \A bp \in QueryBpInputs : ShiftsAddUp(res.self, res.t, bp)
    /\ (AfterKeyBump /\ BeyondNeighbours(chain[1].obj, BumpedPillar, res.t)) =>
          res.out.ret = zero_rate(chain[1].obj, res.t)

\* What holds of C14: the same, with zero_rate(t) unchanged up to rounding
\* only at the interior pillar that follows the bumped one, where zero_rate
\* is r0 + 1.0 * (r1 - r0) and r0 is the bumped rate.
C14_Observed ==
    /\ (res.op = "zero_rate" /\ Len(chain) = 1) =>
          \A bp \in QueryBpInputs : ShiftsAddUp(res.self, res.t, bp)
    /\ (AfterKeyBump /\ BeyondNeighbours(chain[1].obj, BumpedPillar, res.t)) =>
          LET c == chain[1].obj
              j == BumpedPillar
          IN  IF j + 1 < Len(c.pillars) /\ res.t = c.pillars[j + 1]
              THEN Near(res.out.ret, zero_rate(c, res.t), Scale(res.self, Zero), 2)
              ELSE res.out.ret = zero_rate(c, res.t)

====
